---- MODULE Spec2Model ----
(***************************************************************************)
(* A model of the qoi-rs codec (src/src/lib.rs): encode writes a QOI byte  *)
(* stream into a seekable sink, decode reads one back.  One action per     *)
(* step of each routine: the encoder's prologue, one iteration of its      *)
(* pixel loop, its epilogue; the decoder's header parse, one iteration of  *)
(* its while loop, its return.                                             *)
(***************************************************************************)
EXTENDS Integers, Sequences, FiniteSets, TLC

VARIABLES
    data,            \* encode's input byte array
    in_width,        \* encode's width argument (usize)
    channels,        \* encode's ChannelCount (3 or 4)
    d_channels,      \* decode's ChannelCount (3 or 4), 0 before decode is called
    overflow_checks, \* the build: TRUE panics on u8 overflow, FALSE wraps
    pc,              \* where the program is
    file,            \* the bytes in the sink / source
    wpos,            \* the writer's position in the sink
    e_width,         \* encode: width as u16
    e_height,        \* encode: height as u16
    total_pixels,    \* encode: total_pixels of verify_and_calculate_dims
    size_field_offset,
    image_data_len,
    e_run,           \* encode: run
    px_prev,         \* encode: px_prev
    e_px,            \* encode: px
    e_index,         \* encode: index
    pixel_idx,       \* encode: position of the loop over the chunks
    rpos,            \* the reader's position in the source
    d_width,         \* decode: width
    d_height,        \* decode: height
    d_run,           \* decode: run
    d_px,            \* decode: px
    d_index,         \* decode: index
    out_buf,         \* decode: out_buf
    returned,        \* decode's Ok value, <<>> while there is none
    e_trace,         \* history: encode's (index, px) after each instruction written
    arg,             \* the argument of a routine applied on its own
    res              \* its result

vars == <<data, in_width, channels, d_channels, overflow_checks, pc, file, wpos,
          e_width, e_height, total_pixels, size_field_offset, image_data_len,
          e_run, px_prev, e_px, e_index, pixel_idx, rpos, d_width, d_height,
          d_run, d_px, d_index, out_buf, returned, e_trace, arg, res>>

encVars == <<e_width, e_height, total_pixels, size_field_offset, image_data_len,
             e_run, px_prev, e_px, e_index, pixel_idx, wpos, e_trace>>

decVars == <<rpos, d_width, d_height, d_run, d_px, d_index, out_buf, returned>>

inputVars == <<data, in_width, channels, overflow_checks>>

(***************************************************************************)
(* Bounds of the model.                                                    *)
(***************************************************************************)
MaxPixels == 3

MaxWidth == 3

MaxExtra == 1

MaxBody == 3

MaxDim == 2

(***************************************************************************)
(* Constants of the program.                                               *)
(***************************************************************************)
COLOR_LUT_SIZE == 64

DEFAULT_PREV_PIXEL == <<0, 0, 0, 255>>

MAX_RUN_LENGTH == 8224

MAX_RUN_8_LENGTH == 33

MAGIC == <<113, 111, 105, 102>>

QOI_PADDING == 4

QOI_INDEX == 0

QOI_RUN_8 == 64

QOI_RUN_16 == 96

QOI_DIFF_8 == 128

QOI_DIFF_16 == 192

QOI_DIFF_24 == 224

QOI_COLOR == 240

QOI_MASK_2 == 192

QOI_MASK_3 == 224

QOI_MASK_4 == 240

U16_MAX == 65535

\* the capacity (in bytes) up to which Vec::with_capacity is taken to be granted
\* on every machine; beyond it the memory of the machine decides
GrantedCapacity == 1048576

(***************************************************************************)
(* Machine arithmetic.                                                     *)
(***************************************************************************)
RECURSIVE BitAnd(_, _)
BitAnd(a, b) ==
    IF a = 0 \/ b = 0 THEN 0
    ELSE 2 * BitAnd(a \div 2, b \div 2) + (IF a % 2 = 1 /\ b % 2 = 1 THEN 1 ELSE 0)

RECURSIVE BitOr(_, _)
BitOr(a, b) ==
    IF a = 0 THEN b
    ELSE IF b = 0 THEN a
    ELSE 2 * BitOr(a \div 2, b \div 2) + (IF a % 2 = 1 \/ b % 2 = 1 THEN 1 ELSE 0)

RECURSIVE BitXor(_, _)
BitXor(a, b) ==
    IF a = 0 THEN b
    ELSE IF b = 0 THEN a
    ELSE 2 * BitXor(a \div 2, b \div 2) + (IF a % 2 # b % 2 THEN 1 ELSE 0)

Shl(x, k) == x * 2^k

Shr(x, k) == x \div 2^k

AsU8(x) == x % 256

\* a - b on u8: the wrapped value, and whether it overflowed
SubU8(a, b) == [v |-> (a - b) % 256, o |-> a < b]

\* a + b on u8: the wrapped value, and whether it overflowed
AddU8(a, b) == [v |-> (a + b) % 256, o |-> a + b > 255]

\* px[i] += field - bias, as the decoder's DIFF branches compute it on u8
AddDelta(p, fld, bias) ==
    LET s == SubU8(fld, bias)
        t == AddU8(p, s.v)
    IN  [v |-> t.v, o |-> s.o \/ t.o]

ToLe16(x) == <<x % 256, (x \div 256) % 256>>

ToLe32(x) == <<x % 256, (x \div 256) % 256, (x \div 65536) % 256, (x \div 16777216) % 256>>

FromLe16(b) == b[1] + 256 * b[2]

FromLe32(b) == b[1] + 256 * b[2] + 65536 * b[3] + 16777216 * b[4]

(***************************************************************************)
(* The sink and the source.                                                *)
(***************************************************************************)
\* Write::write on a seekable sink at position pos (0-based)
WriteAt(f, pos, bs) ==
    LET n == IF pos + Len(bs) > Len(f) THEN pos + Len(bs) ELSE Len(f)
    IN  [i \in 1..n |-> IF i > pos /\ i <= pos + Len(bs) THEN bs[i - pos] ELSE f[i]]

\* Read::read_exact of n bytes at position pos (0-based)
CanRead(f, pos, n) == pos + n <= Len(f)

ReadAt(f, pos, n) == SubSeq(f, pos + 1, pos + n)

(***************************************************************************)
(* Pixels.                                                                 *)
(***************************************************************************)
color_hash(p) == BitXor(BitXor(BitXor(p[1], p[2]), p[3]), p[4])

subtract_pixels(x, y) == <<x[1] - y[1], x[2] - y[2], x[3] - y[3], x[4] - y[4]>>

EmptyIndex == [i \in 0..(COLOR_LUT_SIZE - 1) |-> <<0, 0, 0, 0>>]

(***************************************************************************)
(* The encoder.                                                            *)
(***************************************************************************)
\* verify_and_calculate_dims: the two assertions, the two try_into, the result
verify_and_calculate_dims(len, width, ch) ==
    IF len % ch # 0 THEN [status |-> "panic"]
    ELSE IF width = 0 THEN [status |-> "panic"]
    ELSE IF len % width # 0 THEN [status |-> "panic"]
    ELSE IF len \div (width * ch) > U16_MAX THEN [status |-> "panic"]
    ELSE IF width > U16_MAX THEN [status |-> "panic"]
    ELSE [status |-> "ok", width |-> width, height |-> len \div (width * ch),
          total_pixels |-> len \div 3]

\* encode_header with the height written before the width
encode_header_swapped(width, height) ==
    MAGIC \o ToLe16(height) \o ToLe16(width) \o ToLe32(0)

\* encode_header: the bytes it writes, in order
encode_header(width, height) == MAGIC \o ToLe16(width) \o ToLe16(height) \o ToLe32(0)

\* encode_header taking the offset after the size placeholder is written
HeaderSizeOffsetLate(pos) == pos + Len(MAGIC) + 2 + 2 + 4

\* encode_header: the offset it returns (the position after magic, width, height)
HeaderSizeOffset(pos) == pos + Len(MAGIC) + 2 + 2

\* encode_size: the sink after the seek and the write (size is image_data_len as
\* u32; the model's streams stay far below 2^32 bytes, where the cast changes nothing)
encode_size(f, size, offset) == WriteAt(f, offset, ToLe32(size))

\* the padding written after the loop
Padding == [i \in 1..QOI_PADDING |-> 0]

\* the run instruction written when a run is dumped
EncodeRun(run) ==
    IF run < MAX_RUN_8_LENGTH
    THEN <<BitOr(QOI_RUN_8, AsU8(run - 1))>>
    ELSE <<BitOr(QOI_RUN_16, AsU8(Shr(run - MAX_RUN_8_LENGTH, 8))),
           AsU8(run - MAX_RUN_8_LENGTH)>>

\* whether the run is dumped at this pixel
RunFlushes(run, pixel_matches_last, idx, total) ==
    run > 0 /\ (run = MAX_RUN_LENGTH \/ ~pixel_matches_last \/ idx + 1 = total)

\* within_small_diff with an upper limit of 32
within_small_diff_wide(diff) == \A i \in 1..4 : diff[i] > -16 /\ diff[i] < 33

within_small_diff(diff) == \A i \in 1..4 : diff[i] > -16 /\ diff[i] < 17

\* the DIFF_8 condition with the deltas limited to 1
FitsDiff8Narrow(d) ==
    d[4] = 0 /\ d[1] > -2 /\ d[1] < 2 /\ d[2] > -2 /\ d[2] < 2 /\ d[3] > -2 /\ d[3] < 2

FitsDiff8(d) ==
    d[4] = 0 /\ d[1] > -2 /\ d[1] < 3 /\ d[2] > -2 /\ d[2] < 3 /\ d[3] > -2 /\ d[3] < 3

\* the DIFF_16 condition with green and blue limited to 7
FitsDiff16Narrow(d) ==
    d[4] = 0 /\ d[1] > -16 /\ d[1] < 17 /\ d[2] > -8 /\ d[2] < 8 /\ d[3] > -8 /\ d[3] < 8

FitsDiff16(d) ==
    d[4] = 0 /\ d[1] > -16 /\ d[1] < 17 /\ d[2] > -8 /\ d[2] < 9 /\ d[3] > -8 /\ d[3] < 9

EncodeDiff8(d) ==
    <<BitOr(QOI_DIFF_8,
            AsU8(BitOr(BitOr(Shl(d[1] + 1, 4), Shl(d[2] + 1, 2)), d[3] + 1)))>>

EncodeDiff16(d) ==
    <<BitOr(QOI_DIFF_16, AsU8(d[1] + 15)),
      AsU8(BitOr(Shl(d[2] + 7, 4), d[3] + 7))>>

EncodeDiff24(d) ==
    <<BitOr(QOI_DIFF_24, AsU8(Shr(d[1] + 15, 1))),
      AsU8(BitOr(BitOr(Shl(d[1] + 15, 7), Shl(d[2] + 15, 2)), Shr(d[3] + 15, 3))),
      AsU8(BitOr(Shl(d[3] + 15, 5), d[4] + 15))>>

gate(v, x) == IF v # 0 THEN x ELSE 0

EncodeColor(px, d) ==
    <<BitOr(BitOr(BitOr(BitOr(QOI_COLOR, gate(d[1], 8)), gate(d[2], 4)), gate(d[3], 2)),
            gate(d[4], 1))>>
    \o (IF d[1] # 0 THEN <<px[1]>> ELSE <<>>)
    \o (IF d[2] # 0 THEN <<px[2]>> ELSE <<>>)
    \o (IF d[3] # 0 THEN <<px[3]>> ELSE <<>>)
    \o (IF d[4] # 0 THEN <<px[4]>> ELSE <<>>)

\* the instruction written for a pixel that misses the index
EncodeDelta(px, prev) ==
    LET diff == subtract_pixels(px, prev)
    IN  IF within_small_diff(diff)
        THEN IF FitsDiff8(diff) THEN EncodeDiff8(diff)
             ELSE IF FitsDiff16(diff) THEN EncodeDiff16(diff)
             ELSE EncodeDiff24(diff)
        ELSE EncodeColor(px, diff)

\* the copy of a pixel into a px whose other channels are cleared
CopyPixelZeroFill(px, pixel_data, ch) == [i \in 1..4 |-> IF i <= ch THEN pixel_data[i] ELSE 0]

\* px[..channels].copy_from_slice(pixel_data)
CopyPixel(px, pixel_data, ch) == [i \in 1..4 |-> IF i <= ch THEN pixel_data[i] ELSE px[i]]

\* the chunk of chunks_exact at position idx
Chunk(d, idx, ch) == SubSeq(d, idx * ch + 1, idx * ch + ch)

\* the number of chunks chunks_exact yields
NumChunks(d, ch) == Len(d) \div ch

\* encode, lines 76-85: the checks, the header, the locals
EncodeBegin ==
    /\ pc = "start"
    /\ LET v == verify_and_calculate_dims(Len(data), in_width, channels)
       IN  IF v.status = "panic"
           THEN /\ pc' = "enc_panic"
                /\ UNCHANGED <<file, encVars>>
           ELSE /\ pc' = "encoding"
                /\ e_width' = v.width
                /\ e_height' = v.height
                /\ total_pixels' = v.total_pixels
                /\ file' = WriteAt(file, wpos, encode_header(v.width, v.height))
                /\ wpos' = wpos + Len(encode_header(v.width, v.height))
                /\ size_field_offset' = HeaderSizeOffset(wpos)
                /\ image_data_len' = 0
                /\ e_run' = 0
                /\ px_prev' = DEFAULT_PREV_PIXEL
                /\ e_px' = DEFAULT_PREV_PIXEL
                /\ e_index' = EmptyIndex
                /\ pixel_idx' = 0
                /\ e_trace' = <<>>
    /\ UNCHANGED <<inputVars, d_channels, decVars, arg, res>>

\* encode, lines 87-181: one iteration of the loop over the pixels
EncodePixel ==
    /\ pc = "encoding"
    /\ pixel_idx < NumChunks(data, channels)
    /\ LET px == CopyPixel(e_px, Chunk(data, pixel_idx, channels), channels)
           pixel_matches_last == (px = px_prev)
           run1 == IF pixel_matches_last THEN e_run + 1 ELSE e_run
           flush == RunFlushes(run1, pixel_matches_last, pixel_idx, total_pixels)
           runBytes == IF flush THEN EncodeRun(run1) ELSE <<>>
           index_pos == color_hash(px) % 64
           hit == (px = e_index[index_pos])
           pxBytes == IF pixel_matches_last THEN <<>>
                      ELSE IF hit THEN <<BitOr(QOI_INDEX, index_pos)>>
                      ELSE EncodeDelta(px, px_prev)
           written == runBytes \o pxBytes
       IN  /\ e_px' = px
           /\ e_run' = IF flush THEN 0 ELSE run1
           /\ e_index' = IF ~pixel_matches_last /\ ~hit
                         THEN [e_index EXCEPT ![index_pos] = px]
                         ELSE e_index
           /\ file' = WriteAt(file, wpos, written)
           /\ wpos' = wpos + Len(written)
           /\ image_data_len' = image_data_len + Len(written)
           /\ px_prev' = px
           /\ pixel_idx' = pixel_idx + 1
           /\ e_trace' = e_trace
                  \o (IF flush THEN <<[index |-> e_index, px |-> px_prev]>> ELSE <<>>)
                  \o (IF pixel_matches_last THEN <<>>
                      ELSE <<[index |-> e_index', px |-> px]>>)
    /\ UNCHANGED <<pc, e_width, e_height, total_pixels, size_field_offset,
                   inputVars, d_channels, decVars, arg, res>>

\* encode, lines 183-187: the padding, then the size written into the header
EncodeFinish ==
    /\ pc = "encoding"
    /\ pixel_idx >= NumChunks(data, channels)
    /\ pc' = "ready"
    /\ image_data_len' = image_data_len + QOI_PADDING
    /\ file' = encode_size(WriteAt(file, wpos, Padding),
                           image_data_len + QOI_PADDING, size_field_offset)
    /\ wpos' = size_field_offset + 4
    /\ UNCHANGED <<e_width, e_height, total_pixels, size_field_offset, e_run, px_prev,
                   e_px, e_index, pixel_idx, e_trace, inputVars, d_channels, decVars,
                   arg, res>>

(***************************************************************************)
(* The decoder.                                                            *)
(***************************************************************************)
\* decode_header without the assertion on the height
decode_header_unchecked_height(f, pos) ==
    IF ~CanRead(f, pos, 4) THEN [status |-> "io"]
    ELSE IF ReadAt(f, pos, 4) # MAGIC THEN [status |-> "panic"]
    ELSE IF ~CanRead(f, pos + 4, 2) THEN [status |-> "io"]
    ELSE IF ~CanRead(f, pos + 6, 2) THEN [status |-> "io"]
    ELSE IF FromLe16(ReadAt(f, pos + 4, 2)) = 0 THEN [status |-> "panic"]
    ELSE IF ~CanRead(f, pos + 8, 4) THEN [status |-> "io"]
    ELSE [status |-> "ok",
          width |-> FromLe16(ReadAt(f, pos + 4, 2)),
          height |-> FromLe16(ReadAt(f, pos + 6, 2)),
          size |-> FromLe32(ReadAt(f, pos + 8, 4)),
          pos |-> pos + 12]

\* decode_header: read magic, assert it; read width and height, assert both
\* nonzero; read the size.  status is "ok", "io" (read_exact failed) or "panic".
decode_header(f, pos) ==
    IF ~CanRead(f, pos, 4) THEN [status |-> "io"]
    ELSE IF ReadAt(f, pos, 4) # MAGIC THEN [status |-> "panic"]
    ELSE IF ~CanRead(f, pos + 4, 2) THEN [status |-> "io"]
    ELSE IF ~CanRead(f, pos + 6, 2) THEN [status |-> "io"]
    ELSE IF FromLe16(ReadAt(f, pos + 4, 2)) = 0 THEN [status |-> "panic"]
    ELSE IF FromLe16(ReadAt(f, pos + 6, 2)) = 0 THEN [status |-> "panic"]
    ELSE IF ~CanRead(f, pos + 8, 4) THEN [status |-> "io"]
    ELSE [status |-> "ok",
          width |-> FromLe16(ReadAt(f, pos + 4, 2)),
          height |-> FromLe16(ReadAt(f, pos + 6, 2)),
          size |-> FromLe32(ReadAt(f, pos + 8, 4)),
          pos |-> pos + 12]

\* how far decode_header has read when it stops
HeaderReadEnd(f, pos) ==
    LET h == decode_header(f, pos)
    IN  IF h.status = "ok" THEN h.pos
        ELSE IF h.status = "io" THEN Len(f)
        ELSE IF ReadAt(f, pos, 4) # MAGIC THEN pos + 4
        ELSE pos + 8

\* the run of a RUN_8 instruction
DecodeRun8(b1) == BitAnd(b1, 31)

\* the run of a RUN_16 instruction with the bias of the tag table, 33
DecodeRun16Bias33(b1, b2) == BitOr(Shl(BitAnd(b1, 31), 8), b2) + 33

\* the run of a RUN_16 instruction
DecodeRun16(b1, b2) == BitOr(Shl(BitAnd(b1, 31), 8), b2) + 32

\* the bytes an instruction reads after its first byte
ExtraBytes(b1) ==
    IF BitAnd(b1, QOI_MASK_2) = QOI_INDEX THEN 0
    ELSE IF BitAnd(b1, QOI_MASK_3) = QOI_RUN_8 THEN 0
    ELSE IF BitAnd(b1, QOI_MASK_3) = QOI_RUN_16 THEN 1
    ELSE IF BitAnd(b1, QOI_MASK_2) = QOI_DIFF_8 THEN 0
    ELSE IF BitAnd(b1, QOI_MASK_3) = QOI_DIFF_16 THEN 1
    ELSE IF BitAnd(b1, QOI_MASK_4) = QOI_DIFF_24 THEN 2
    ELSE IF BitAnd(b1, QOI_MASK_4) = QOI_COLOR
         THEN (IF BitAnd(b1, 8) # 0 THEN 1 ELSE 0) + (IF BitAnd(b1, 4) # 0 THEN 1 ELSE 0)
              + (IF BitAnd(b1, 2) # 0 THEN 1 ELSE 0) + (IF BitAnd(b1, 1) # 0 THEN 1 ELSE 0)
    ELSE 0

DecodeDiff8(px, b1) ==
    LET r == AddDelta(px[1], BitAnd(Shr(b1, 4), 3), 1)
        g == AddDelta(px[2], BitAnd(Shr(b1, 2), 3), 1)
        b == AddDelta(px[3], BitAnd(b1, 3), 1)
    IN  [px |-> <<r.v, g.v, b.v, px[4]>>, o |-> r.o \/ g.o \/ b.o]

DecodeDiff16(px, b1, b2) ==
    LET r == AddDelta(px[1], BitAnd(b1, 31), 15)
        g == AddDelta(px[2], Shr(b2, 4), 7)
        b == AddDelta(px[3], BitAnd(b2, 15), 7)
    IN  [px |-> <<r.v, g.v, b.v, px[4]>>, o |-> r.o \/ g.o \/ b.o]

DecodeDiff24(px, b1, b2, b3) ==
    LET r == AddDelta(px[1], BitOr(AsU8(Shl(BitAnd(b1, 15), 1)), Shr(b2, 7)), 15)
        g == AddDelta(px[2], Shr(BitAnd(b2, 124), 2), 15)
        b == AddDelta(px[3], BitOr(AsU8(Shl(BitAnd(b2, 3), 3)), Shr(BitAnd(b3, 224), 5)), 15)
        a == AddDelta(px[4], BitAnd(b3, 31), 15)
    IN  [px |-> <<r.v, g.v, b.v, a.v>>, o |-> r.o \/ g.o \/ b.o \/ a.o]

\* the COLOR branch: each channel whose bit is set is read, in the order r, g, b, a
DecodeColor(px, b1, bs) ==
    LET nr == IF BitAnd(b1, 8) # 0 THEN 1 ELSE 0
        ng == nr + (IF BitAnd(b1, 4) # 0 THEN 1 ELSE 0)
        nb == ng + (IF BitAnd(b1, 2) # 0 THEN 1 ELSE 0)
        na == nb + (IF BitAnd(b1, 1) # 0 THEN 1 ELSE 0)
    IN  <<IF BitAnd(b1, 8) # 0 THEN bs[nr] ELSE px[1],
          IF BitAnd(b1, 4) # 0 THEN bs[ng] ELSE px[2],
          IF BitAnd(b1, 2) # 0 THEN bs[nb] ELSE px[3],
          IF BitAnd(b1, 1) # 0 THEN bs[na] ELSE px[4]>>

\* the branch that reads an instruction, without the index write that follows it
DecodeInstrNoIndexWrite(px, index, b1, bs) ==
    LET r == IF BitAnd(b1, QOI_MASK_2) = QOI_INDEX
                 THEN [px |-> index[BitXor(b1, QOI_INDEX)], run |-> 0, o |-> FALSE]
             ELSE IF BitAnd(b1, QOI_MASK_3) = QOI_RUN_8
                 THEN [px |-> px, run |-> DecodeRun8(b1), o |-> FALSE]
             ELSE IF BitAnd(b1, QOI_MASK_3) = QOI_RUN_16
                 THEN [px |-> px, run |-> DecodeRun16(b1, bs[1]), o |-> FALSE]
             ELSE IF BitAnd(b1, QOI_MASK_2) = QOI_DIFF_8
                 THEN [px |-> DecodeDiff8(px, b1).px, run |-> 0,
                       o |-> DecodeDiff8(px, b1).o]
             ELSE IF BitAnd(b1, QOI_MASK_3) = QOI_DIFF_16
                 THEN [px |-> DecodeDiff16(px, b1, bs[1]).px, run |-> 0,
                       o |-> DecodeDiff16(px, b1, bs[1]).o]
             ELSE IF BitAnd(b1, QOI_MASK_4) = QOI_DIFF_24
                 THEN [px |-> DecodeDiff24(px, b1, bs[1], bs[2]).px, run |-> 0,
                       o |-> DecodeDiff24(px, b1, bs[1], bs[2]).o]
             ELSE IF BitAnd(b1, QOI_MASK_4) = QOI_COLOR
                 THEN [px |-> DecodeColor(px, b1, bs), run |-> 0, o |-> FALSE]
             ELSE [px |-> px, run |-> 0, o |-> FALSE]
    IN  [px |-> r.px, run |-> r.run, o |-> r.o, index |-> index]

\* the branch of the while loop that reads an instruction (lines 282-322), given
\* its first byte and the bytes that follow it: the pixel, the run, the index,
\* and whether a u8 operation overflowed
DecodeInstr(px, index, b1, bs) ==
    LET r == IF BitAnd(b1, QOI_MASK_2) = QOI_INDEX
                 THEN [px |-> index[BitXor(b1, QOI_INDEX)], run |-> 0, o |-> FALSE]
             ELSE IF BitAnd(b1, QOI_MASK_3) = QOI_RUN_8
                 THEN [px |-> px, run |-> DecodeRun8(b1), o |-> FALSE]
             ELSE IF BitAnd(b1, QOI_MASK_3) = QOI_RUN_16
                 THEN [px |-> px, run |-> DecodeRun16(b1, bs[1]), o |-> FALSE]
             ELSE IF BitAnd(b1, QOI_MASK_2) = QOI_DIFF_8
                 THEN [px |-> DecodeDiff8(px, b1).px, run |-> 0,
                       o |-> DecodeDiff8(px, b1).o]
             ELSE IF BitAnd(b1, QOI_MASK_3) = QOI_DIFF_16
                 THEN [px |-> DecodeDiff16(px, b1, bs[1]).px, run |-> 0,
                       o |-> DecodeDiff16(px, b1, bs[1]).o]
             ELSE IF BitAnd(b1, QOI_MASK_4) = QOI_DIFF_24
                 THEN [px |-> DecodeDiff24(px, b1, bs[1], bs[2]).px, run |-> 0,
                       o |-> DecodeDiff24(px, b1, bs[1], bs[2]).o]
             ELSE IF BitAnd(b1, QOI_MASK_4) = QOI_COLOR
                 THEN [px |-> DecodeColor(px, b1, bs), run |-> 0, o |-> FALSE]
             ELSE [px |-> px, run |-> 0, o |-> FALSE]
    IN  [px |-> r.px, run |-> r.run, o |-> r.o,
         index |-> [index EXCEPT ![color_hash(r.px) % 64] = r.px]]

\* read_byte()?: a failed read_exact ends decode with the error, and no Ok value
ReadFailure(buf) == [pc |-> "dec_io_error", returned |-> <<>>]

\* what the loop appends to out_buf for a pixel
EmitPixel(px, ch) == IF ch = 4 THEN px ELSE SubSeq(px, 1, 3)

\* n < width * height * channels, the comparison with uncompressed_len (lines
\* 267-268), computed without forming the product, which for a header of
\* 65535 x 65535 does not fit the integers of the model checker
BelowUncompressedLen(n, width, height, ch) == (n \div (height * ch)) < width

\* out_buf.len() < uncompressed_len, the condition of the while loop
OutputIncomplete == BelowUncompressedLen(Len(out_buf), d_width, d_height, d_channels)

\* Vec::with_capacity(uncompressed_len), line 270, on a target whose usize has
\* 64 bits: the allocation is granted ("decoding"), or, for a capacity the
\* machine cannot provide, it fails and the process aborts ("dec_abort")
with_capacity(width, height, ch) ==
    IF BelowUncompressedLen(GrantedCapacity, width, height, ch)
    THEN {"decoding", "dec_abort"}
    ELSE {"decoding"}

\* decode, lines 260-270: the call with its channel count, the header, the
\* locals, and the allocation of out_buf
DecodeBegin ==
    /\ pc = "ready"
    /\ d_channels' \in {3, 4}
    /\ LET h == decode_header(file, rpos)
       IN  /\ rpos' = HeaderReadEnd(file, rpos)
           /\ IF h.status = "ok"
              THEN /\ pc' \in with_capacity(h.width, h.height, d_channels')
                   /\ d_width' = h.width
                   /\ d_height' = h.height
              ELSE /\ pc' = IF h.status = "io" THEN "dec_io_error" ELSE "dec_panic"
                   /\ UNCHANGED <<d_width, d_height>>
    /\ d_run' = 0
    /\ d_px' = DEFAULT_PREV_PIXEL
    /\ d_index' = EmptyIndex
    /\ out_buf' = <<>>
    /\ UNCHANGED <<returned, file, encVars, inputVars, arg, res>>

\* decode, lines 278-329: one iteration of the while loop
DecodeStep ==
    /\ pc = "decoding"
    /\ OutputIncomplete
    /\ IF d_run > 0
       THEN /\ d_run' = d_run - 1
            /\ out_buf' = out_buf \o EmitPixel(d_px, d_channels)
            /\ UNCHANGED <<pc, rpos, d_px, d_index, returned>>
       ELSE IF ~CanRead(file, rpos, 1)
       THEN /\ pc' = ReadFailure(out_buf).pc
            /\ returned' = ReadFailure(out_buf).returned
            /\ UNCHANGED <<rpos, d_run, d_px, d_index, out_buf>>
       ELSE LET b1 == file[rpos + 1]
                n == ExtraBytes(b1)
            IN  IF ~CanRead(file, rpos + 1, n)
                THEN /\ pc' = ReadFailure(out_buf).pc
                     /\ returned' = ReadFailure(out_buf).returned
                     /\ rpos' = Len(file)
                     /\ UNCHANGED <<d_run, d_px, d_index, out_buf>>
                ELSE LET r == DecodeInstr(d_px, d_index, b1, ReadAt(file, rpos + 1, n))
                     IN  IF r.o /\ overflow_checks
                         THEN /\ pc' = "dec_panic"
                              /\ rpos' = rpos + 1 + n
                              /\ UNCHANGED <<d_run, d_px, d_index, out_buf, returned>>
                         ELSE /\ rpos' = rpos + 1 + n
                              /\ d_px' = r.px
                              /\ d_run' = r.run
                              /\ d_index' = r.index
                              /\ out_buf' = out_buf \o EmitPixel(r.px, d_channels)
                              /\ UNCHANGED <<pc, returned>>
    /\ UNCHANGED <<d_channels, d_width, d_height, file, encVars, inputVars, arg, res>>

\* decode, line 331: the loop is over, Ok((out_buf, width, height))
DecodeFinish ==
    /\ pc = "decoding"
    /\ ~OutputIncomplete
    /\ pc' = "done"
    /\ returned' = <<out_buf, d_width, d_height>>
    /\ UNCHANGED <<d_channels, rpos, d_width, d_height, d_run, d_px, d_index, out_buf,
                   file, encVars, inputVars, arg, res>>

(***************************************************************************)
(* The inputs of the model.                                                *)
(***************************************************************************)
\* the pixels the model's images are made of
Palette == {<<0, 0, 0, 255>>, <<0, 0, 0, 0>>, <<1, 0, 0, 255>>, <<1, 8, 8, 255>>,
            <<100, 0, 0, 250>>}

PixelSeqs == UNION {[1..n -> Palette] : n \in 0..MaxPixels}

\* the image of the specification's scenario 3: two pixels, the second one blue
\* step after the first; and an image that starts with the sentinel pixel and
\* returns to it twice, so that slot 63 of the index is written and then named
\* by an INDEX instruction
ScenarioImages ==
    {<<<<10, 20, 30, 255>>, <<10, 20, 31, 255>>>>,
     <<<<0, 0, 0, 255>>, <<1, 0, 0, 255>>, <<0, 0, 0, 255>>, <<1, 0, 0, 255>>,
       <<0, 0, 0, 255>>>>}

\* the byte array of a sequence of pixels with ch channels each
Flatten(ps, ch) ==
    [i \in 1..(Len(ps) * ch) |-> ps[((i - 1) \div ch) + 1][((i - 1) % ch) + 1]]

Zeros(n) == [i \in 1..n |-> 0]

Widths == (0..MaxWidth) \cup {U16_MAX, U16_MAX + 1}

\* the locals of both routines before either has run
InitLocals ==
    /\ wpos = 0
    /\ e_width = 0
    /\ e_height = 0
    /\ total_pixels = 0
    /\ size_field_offset = 0
    /\ image_data_len = 0
    /\ e_run = 0
    /\ px_prev = DEFAULT_PREV_PIXEL
    /\ e_px = DEFAULT_PREV_PIXEL
    /\ e_index = EmptyIndex
    /\ pixel_idx = 0
    /\ e_trace = <<>>
    /\ rpos = 0
    /\ d_width = 0
    /\ d_height = 0
    /\ d_run = 0
    /\ d_px = DEFAULT_PREV_PIXEL
    /\ d_index = EmptyIndex
    /\ out_buf = <<>>
    /\ returned = <<>>

\* encode is called on a fresh sink; decode then reads what encode left there
Init ==
    /\ channels \in {3, 4}
    /\ d_channels = 0
    /\ overflow_checks \in BOOLEAN
    /\ in_width \in Widths
    /\ \E ps \in PixelSeqs \cup ScenarioImages, e \in 0..MaxExtra :
           data = Flatten(ps, channels) \o Zeros(e)
    /\ pc = "start"
    /\ file = <<>>
    /\ InitLocals
    /\ arg = <<>>
    /\ res = <<>>

Next ==
    \/ EncodeBegin
    \/ EncodePixel
    \/ EncodeFinish
    \/ DecodeBegin
    \/ DecodeStep
    \/ DecodeFinish

Spec == Init /\ [][Next]_vars

(***************************************************************************)
(* decode applied to any byte source.                                      *)
(***************************************************************************)
\* first bytes of instructions: INDEX, RUN_8, RUN_16, DIFF_8 (fields 0,0,0 and
\* 2,2,2), DIFF_16, DIFF_24, COLOR (b and a); they also serve as operand bytes
ByteSample == {0, 65, 96, 128, 170, 192, 224, 243}

Bodies == UNION {[1..n -> ByteSample] : n \in 0..MaxBody}

StreamHeader(magic, w, h) == magic \o ToLe16(w) \o ToLe16(h) \o ToLe32(0)

BadMagic == <<113, 111, 105, 0>>

Prefixes(s) == {SubSeq(s, 1, k) : k \in 0..Len(s)}

\* streams whose header is cut short or fails a check, streams with a valid
\* header followed by any instruction bytes, and streams whose header declares
\* the largest image, followed by at most one byte, and a stream of three
\* pixels made of a RUN_8 and an INDEX of slot 63
Streams ==
    UNION {Prefixes(StreamHeader(BadMagic, 1, 1) \o <<0>>),
           UNION {Prefixes(StreamHeader(MAGIC, w, 0) \o <<0>>) : w \in 0..MaxDim},
           UNION {Prefixes(StreamHeader(MAGIC, 0, h) \o <<0>>) : h \in 1..MaxDim},
           {StreamHeader(MAGIC, w, 1) \o b : w \in 1..MaxDim, b \in Bodies},
           {StreamHeader(MAGIC, 2, 2) \o b : b \in Bodies},
           {StreamHeader(MAGIC, U16_MAX, U16_MAX) \o b : b \in {c \in Bodies : Len(c) <= 1}},
           {StreamHeader(MAGIC, 3, 1) \o <<65, 63>>}}

InitDecode ==
    /\ channels = 4
    /\ d_channels = 0
    /\ overflow_checks \in BOOLEAN
    /\ in_width = 0
    /\ data = <<>>
    /\ pc = "ready"
    /\ file \in Streams
    /\ InitLocals
    /\ arg = <<>>
    /\ res = <<>>

NextDecode ==
    \/ DecodeBegin
    \/ DecodeStep
    \/ DecodeFinish

SpecDecode == InitDecode /\ [][NextDecode]_vars

(***************************************************************************)
(* The run instruction on its own: the encoder's dump of a run of n, and   *)
(* the decoder's reading of what was written.                              *)
(***************************************************************************)
InitRun ==
    /\ channels = 4
    /\ d_channels = 0
    /\ overflow_checks = FALSE
    /\ in_width = 0
    /\ data = <<>>
    /\ pc = "run_start"
    /\ file = <<>>
    /\ InitLocals
    /\ arg \in {[run |-> n] : n \in 1..MAX_RUN_LENGTH}
    /\ res = <<>>

\* lines 101-110 applied to run = arg.run
ApplyEncodeRun ==
    /\ pc = "run_start"
    /\ pc' = "run_encoded"
    /\ res' = [bytes |-> EncodeRun(arg.run)]
    /\ UNCHANGED <<file, arg, inputVars, d_channels, encVars, decVars>>

\* lines 282-290 applied to the bytes written: the instruction is read with the
\* pixel px held; the iteration that reads it emits px once, and each of the next
\* run iterations (lines 279-280) emits px once more
ApplyDecodeRun ==
    /\ pc = "run_encoded"
    /\ pc' = "run_decoded"
    /\ LET b1 == res.bytes[1]
           r == DecodeInstr(DEFAULT_PREV_PIXEL, EmptyIndex, b1, Tail(res.bytes))
       IN  res' = [bytes |-> res.bytes, consumed |-> 1 + ExtraBytes(b1),
                   px |-> r.px, copies |-> 1 + r.run]
    /\ UNCHANGED <<file, arg, inputVars, d_channels, encVars, decVars>>

NextRun ==
    \/ ApplyEncodeRun
    \/ ApplyDecodeRun

SpecRun == InitRun /\ [][NextRun]_vars

(***************************************************************************)
(* encode applied to RGBA images made of a pixel and a neighbour of it:    *)
(* the pair (q, q + d) and the triples (q + d, q, q + d) and (q, q, q + d), *)
(* for every delta d around the limits of the DIFF instructions.           *)
(***************************************************************************)
TagBase == <<128, 128, 128, 128>>

RedDeltas == {-16, -15, -2, -1, 0, 2, 3, 16, 17}

GreenBlueDeltas == {-16, -15, -8, -7, -2, -1, 0, 2, 3, 8, 9, 16, 17}

AlphaDeltas == {-16, -15, 0, 16, 17}

TagDeltas ==
    {<<r, g, b, a>> : r \in RedDeltas, g \in GreenBlueDeltas, b \in GreenBlueDeltas,
                      a \in AlphaDeltas}

Neighbour(q, d) == [i \in 1..4 |-> q[i] + d[i]]

TagImages ==
    {<<TagBase, Neighbour(TagBase, d)>> : d \in TagDeltas}
        \cup {<<Neighbour(TagBase, d), TagBase, Neighbour(TagBase, d)>> : d \in TagDeltas}
        \cup {<<TagBase, TagBase, Neighbour(TagBase, d)>> : d \in TagDeltas}

InitTag ==
    /\ channels = 4
    /\ d_channels = 0
    /\ overflow_checks = FALSE
    /\ in_width = 1
    /\ \E ps \in TagImages : data = Flatten(ps, 4)
    /\ pc = "start"
    /\ file = <<>>
    /\ InitLocals
    /\ arg = <<>>
    /\ res = <<>>

NextTag ==
    \/ EncodeBegin
    \/ EncodePixel
    \/ EncodeFinish

SpecTag == InitTag /\ [][NextTag]_vars

(***************************************************************************)
(* The DIFF instructions on their own: the encoder's instruction for the   *)
(* pixel TagBase + d after TagBase, for deltas d the DIFF instructions     *)
(* accept, and the decoder's reading of it with the pixel dpx held.        *)
(***************************************************************************)
DiffRange == {-15, -14, -8, -7, -2, -1, 0, 1, 2, 7, 8, 15, 16}

DiffAlphas == {-15, 0, 16}

DiffDeltas ==
    {<<r, g, b, a>> : r \in DiffRange, g \in DiffRange, b \in DiffRange, a \in DiffAlphas}
        \ {<<0, 0, 0, 0>>}

DecoderPixels == {TagBase, <<0, 0, 0, 255>>, <<250, 250, 250, 250>>}

InitDiff ==
    /\ channels = 4
    /\ d_channels = 0
    /\ overflow_checks \in BOOLEAN
    /\ in_width = 0
    /\ data = <<>>
    /\ pc = "diff_start"
    /\ file = <<>>
    /\ InitLocals
    /\ arg \in {[d |-> d, dpx |-> q] : d \in DiffDeltas, q \in DecoderPixels}
    /\ res = <<>>

\* lines 121-153 applied to px = TagBase + arg.d and px_prev = TagBase
ApplyEncodeDiff ==
    /\ pc = "diff_start"
    /\ pc' = "diff_packed"
    /\ res' = [bytes |-> EncodeDelta(Neighbour(TagBase, arg.d), TagBase)]
    /\ UNCHANGED <<file, arg, inputVars, d_channels, encVars, decVars>>

\* lines 282-322 applied to the bytes written, with px = arg.dpx: a u8 overflow
\* aborts decode in a build that checks it
ApplyDecodeDiff ==
    /\ pc = "diff_packed"
    /\ LET b1 == res.bytes[1]
           r == DecodeInstr(arg.dpx, EmptyIndex, b1, Tail(res.bytes))
       IN  IF r.o /\ overflow_checks
           THEN /\ pc' = "diff_panic"
                /\ res' = [bytes |-> res.bytes, consumed |-> 1 + ExtraBytes(b1)]
           ELSE /\ pc' = "diff_decoded"
                /\ res' = [bytes |-> res.bytes, consumed |-> 1 + ExtraBytes(b1),
                           px |-> r.px]
    /\ UNCHANGED <<file, arg, inputVars, d_channels, encVars, decVars>>

NextDiff ==
    \/ ApplyEncodeDiff
    \/ ApplyDecodeDiff

SpecDiff == InitDiff /\ [][NextDiff]_vars

(***************************************************************************)
(* Properties.                                                             *)
(***************************************************************************)
\* an image of W x H pixels with ch channels, W and H in [1, 2^16)
ValidImage(ch) ==
    /\ channels = ch
    /\ in_width >= 1
    /\ in_width <= U16_MAX
    /\ Len(data) > 0
    /\ Len(data) % (in_width * ch) = 0
    /\ Len(data) \div (in_width * ch) <= U16_MAX

ImageHeight == Len(data) \div (in_width * channels)

\* encode and decode have both returned or failed
Terminal == pc \in {"enc_panic", "dec_io_error", "dec_panic", "dec_abort", "done"}

\* C1: an RGBA image of W x H pixels decodes, with 4 channels, from what encode
\* wrote for it, to exactly (pixels, W, H).  Stated for the build whose u8
\* arithmetic wraps, where no decode stops on an overflow.
RoundTripRGBA ==
    (ValidImage(4) /\ d_channels = 4 /\ ~overflow_checks /\ Terminal)
        => (pc = "done" /\ returned = <<data, in_width, ImageHeight>>)

\* C2: an RGB image of W x H pixels decodes, with 3 channels, from what encode
\* wrote for it, to exactly (pixels, W, H).
RoundTripRGB ==
    (ValidImage(3) /\ d_channels = 3 /\ Terminal)
        => (pc = "done" /\ returned = <<data, in_width, ImageHeight>>)

\* the RGB round trip in the build whose u8 arithmetic wraps
RoundTripRGBWrapping ==
    (ValidImage(3) /\ d_channels = 3 /\ ~overflow_checks /\ Terminal)
        => (pc = "done" /\ returned = <<data, in_width, ImageHeight>>)

\* encode has returned Ok: the sink holds the stream it wrote
Encoded == pc \in {"ready", "decoding", "done", "dec_io_error", "dec_panic", "dec_abort"}

\* C3: the stream of a successful encode is 'qoif', the width and the height on
\* 2 bytes each, a 4-byte size field, the instruction bytes, and 4 zero bytes at
\* the very end; the size field holds the number of instruction bytes plus 4.
StreamLayout ==
    Encoded =>
        /\ Len(file) >= 12 + QOI_PADDING
        /\ SubSeq(file, 1, 4) = MAGIC
        /\ FromLe16(SubSeq(file, 5, 6)) = e_width
        /\ FromLe16(SubSeq(file, 7, 8)) = e_height
        /\ SubSeq(file, Len(file) - 3, Len(file)) = <<0, 0, 0, 0>>
        /\ FromLe32(SubSeq(file, 9, 12)) = (Len(file) - 12 - 4) + 4

\* a stream with instruction bytes of a run and of a pixel has been written
StreamLayoutWitness ==
    /\ pc = "ready"
    /\ Len(file) > 12 + QOI_PADDING + 2
    /\ e_height = 2

\* C4, as claimed: bytes 4-7 hold W, bytes 8-11 hold H, bytes 12-15 hold the
\* length of the output minus 14.
HeaderAsClaimed ==
    Encoded =>
        /\ SubSeq(file, 1, 4) = <<113, 111, 105, 102>>
        /\ FromLe32(SubSeq(file, 5, 8)) = in_width
        /\ FromLe32(SubSeq(file, 9, 12)) = ImageHeight
        /\ FromLe32(SubSeq(file, 13, 16)) = Len(file) - 14

\* C4, amended: the first 4 bytes are 0x71 0x6f 0x69 0x66, bytes 4-5 hold W,
\* bytes 6-7 hold H (the data length divided by W*C), and bytes 8-11 hold the
\* length of the output minus 12.
HeaderWellFormed ==
    Encoded =>
        /\ SubSeq(file, 1, 4) = <<113, 111, 105, 102>>
        /\ FromLe16(SubSeq(file, 5, 6)) = in_width
        /\ FromLe16(SubSeq(file, 7, 8)) = ImageHeight
        /\ FromLe32(SubSeq(file, 9, 12)) = Len(file) - 12

\* an image wider than high, with a stream longer than its header and padding
HeaderWellFormedWitness ==
    /\ pc = "ready"
    /\ in_width = 3
    /\ ImageHeight = 1
    /\ Len(file) > 17

\* C5: a run of n, 1 <= n <= 0x2020, is written as one instruction, 0x40|(n-1)
\* when n <= 32 and 0x60|((n-33)>>8), (n-33)&0xff when n >= 33, and the decoder
\* reads that instruction whole and emits n copies of the pixel it holds.
RunLengthMapping ==
    pc = "run_decoded" =>
        LET n == arg.run
        IN  /\ res.bytes = IF n <= 32 THEN <<64 + (n - 1)>>
                           ELSE <<96 + ((n - 33) \div 256), (n - 33) % 256>>
            /\ (n = 32 => res.bytes = <<95>>)
            /\ (n = 33 => res.bytes = <<96, 0>>)
            /\ (n = 8224 => res.bytes = <<127, 255>>)
            /\ res.consumed = Len(res.bytes)
            /\ res.copies = n
            /\ res.px = DEFAULT_PREV_PIXEL

\* the longest run has been written and read back
RunLengthMappingWitness ==
    /\ pc = "run_decoded"
    /\ arg.run = 8224
    /\ res.bytes = <<127, 255>>
    /\ res.copies = 8224

\* an input encode must refuse: a length that is no multiple of C or of W*C, or
\* a width or height beyond 16 bits
BadGeometry ==
    \/ Len(data) % channels # 0
    \/ in_width = 0
    \/ Len(data) % (in_width * channels) # 0
    \/ in_width > U16_MAX
    \/ Len(data) \div (in_width * channels) > U16_MAX

\* C6: encode fails, with nothing written to the sink, on every input whose
\* length is no multiple of C or of W*C or whose width or height exceeds 16 bits.
EncodeRefusesBadGeometry ==
    BadGeometry => (pc \in {"start", "enc_panic"} /\ file = <<>>)

\* C7: every stream encode produces has a nonzero width and a nonzero height in
\* its header, and decode_header accepts it.
EncodedDimsNonzero ==
    Encoded =>
        /\ FromLe16(SubSeq(file, 5, 6)) # 0
        /\ FromLe16(SubSeq(file, 7, 8)) # 0
        /\ decode_header(file, 0).status = "ok"

\* the stream does not start with 'qoif', or its width or height field is 0
MagicMissing == Len(file) >= 4 /\ SubSeq(file, 1, 4) # <<113, 111, 105, 102>>

ZeroDim ==
    /\ Len(file) >= 8
    /\ (file[5] = 0 /\ file[6] = 0) \/ (file[7] = 0 /\ file[8] = 0)

\* C8: on a stream without the magic, or with width 0 or height 0, decode fails
\* (it never enters its loop and never returns Ok), with no pixel produced and no
\* byte past the header's width and height read.
InvalidStreamFails ==
    (MagicMissing \/ ZeroDim) =>
        /\ pc \in {"ready", "dec_panic"}
        /\ out_buf = <<>>
        /\ returned = <<>>
        /\ rpos <= 8
        /\ d_run = 0
        /\ d_index = EmptyIndex

\* decode has failed on a stream with the magic and width 0, followed by a byte
InvalidStreamFailsWitness ==
    /\ pc = "dec_panic"
    /\ ZeroDim
    /\ ~MagicMissing
    /\ Len(file) > 12

\* the header is cut short before a check of decode_header can fail
HeaderCutShort ==
    \/ Len(file) < 4
    \/ (~MagicMissing /\ Len(file) < 8)
    \/ (~MagicMissing /\ ~ZeroDim /\ Len(file) < 12)

\* the length of the instruction that starts with b, by the tag table
TagLength(b) ==
    IF b >= 240
    THEN 1 + ((b \div 8) % 2) + ((b \div 4) % 2) + ((b \div 2) % 2) + (b % 2)
    ELSE IF b >= 224 THEN 3
    ELSE IF b >= 192 THEN 2
    ELSE IF b >= 128 THEN 1
    ELSE IF b >= 96 THEN 2
    ELSE 1

\* the loop needs an instruction and the source ends before or inside it
InstructionCutShort ==
    /\ pc = "decoding"
    /\ OutputIncomplete
    /\ d_run = 0
    /\ (rpos >= Len(file) \/ rpos + TagLength(file[rpos + 1]) > Len(file))

\* once the loop runs, every read that meets the end of the source ends decode
\* with the I/O error and no pixel array, a header cut short does the same, and
\* decode never returns Ok with fewer than W*H pixels
TruncatedSourceFails ==
    /\ [](pc = "done" => /\ Len(returned[1]) = d_width * d_height * d_channels
                         /\ returned[1] = out_buf)
    /\ [](pc = "dec_io_error" => returned = <<>>)
    /\ [][(pc = "ready" /\ HeaderCutShort) => pc' = "dec_io_error"]_vars
    /\ [][InstructionCutShort => (pc' = "dec_io_error" /\ returned' = <<>>)]_vars

\* decode has failed with the I/O error after producing a part of the pixels
TruncatedSourceFailsWitness ==
    /\ pc = "dec_io_error"
    /\ Len(out_buf) > 0
    /\ OutputIncomplete
    /\ rpos = Len(file)

\* the number of pixels the instruction at position i (1-based) yields
TagPixels(i) ==
    LET b == file[i]
    IN  IF b >= 64 /\ b < 96 THEN (b % 32) + 1
        ELSE IF b >= 96 /\ b < 128 THEN (b % 32) * 256 + file[i + 1] + 33
        ELSE 1

\* the pixels that the whole instructions from position i (1-based) on yield
RECURSIVE WholePixels(_)
WholePixels(i) ==
    IF i > Len(file) THEN 0
    ELSE IF i + TagLength(file[i]) - 1 > Len(file) THEN 0
    ELSE TagPixels(i) + WholePixels(i + TagLength(file[i]))

ValidHeader == Len(file) >= 12 /\ ~MagicMissing /\ ~ZeroDim

HeaderWidth == FromLe16(SubSeq(file, 5, 6))

HeaderHeight == FromLe16(SubSeq(file, 7, 8))

\* the instructions of the stream are whole and yield at least W*H pixels
EnoughInstructions ==
    ~BelowUncompressedLen(WholePixels(13), HeaderWidth, HeaderHeight, 1)

DecodeEnded == pc \in {"done", "dec_io_error", "dec_panic", "dec_abort"}

\* C10: on a stream with a valid header and enough instruction bytes, decode
\* ends with Ok and exactly W*H pixels (W*H*C bytes).
DecodeTerminatesWithAllPixels ==
    (ValidHeader /\ EnoughInstructions /\ DecodeEnded)
        => /\ pc = "done"
           /\ Len(returned[1]) = HeaderWidth * HeaderHeight * d_channels

\* the same in the build whose u8 arithmetic wraps
DecodeTerminatesWhenWrapping ==
    (~overflow_checks /\ ValidHeader
        /\ EnoughInstructions /\ DecodeEnded)
        => /\ pc = "done"
           /\ Len(returned[1]) = HeaderWidth * HeaderHeight * d_channels

\* the source ends inside the header, or before the instructions have yielded
\* W*H pixels
SourceRunsOut == HeaderCutShort \/ (ValidHeader /\ ~EnoughInstructions)

\* C9, as claimed: on a source that ends before W*H pixels have been produced,
\* decode returns the I/O error and no pixel array.  Stated for the build whose
\* u8 arithmetic wraps, where no decode stops on an overflow.
TruncatedSourceReturnsError ==
    (~overflow_checks /\ SourceRunsOut /\ DecodeEnded)
        => (pc = "dec_io_error" /\ returned = <<>>)

\* the same when the allocation of out_buf is granted
TruncatedSourceReturnsErrorWhenAllocated ==
    (~overflow_checks /\ SourceRunsOut /\ DecodeEnded /\ pc # "dec_abort")
        => (pc = "dec_io_error" /\ returned = <<>>)

\* the allocation of out_buf is granted for every image of at most
\* GrantedCapacity bytes
SmallImageAllocated ==
    (ValidHeader /\ pc = "dec_abort")
        => BelowUncompressedLen(GrantedCapacity, HeaderWidth, HeaderHeight, d_channels)

\* each iteration of the loop emits one pixel, and reads at most one instruction
OnePixelPerStep ==
    [][(pc = "decoding" /\ pc' = "decoding")
        => /\ Len(out_buf') = Len(out_buf) + d_channels
           /\ (d_run > 0 => rpos' = rpos)]_vars

\* the position (0-based) after the instruction that yields pixel number need,
\* counting from the instruction at position i (1-based)
RECURSIVE EndOfInstructions(_, _)
EndOfInstructions(i, need) ==
    IF need <= 0 THEN i - 1
    ELSE EndOfInstructions(i + TagLength(file[i]), need - TagPixels(i))

\* decode returns as soon as W*H pixels are out: a run is cut off there, and no
\* byte after the instruction that yields the last pixel is read
StopsAtLastPixel ==
    (ValidHeader /\ pc = "done") =>
        /\ Len(out_buf) = HeaderWidth * HeaderHeight * d_channels
        /\ rpos = EndOfInstructions(13, HeaderWidth * HeaderHeight)

\* a run longer than the pixels left has been cut off
RunCutOff == pc = "done" /\ d_run > 0

\* the pixels the instructions from position i (1-based) to position end yield
RECURSIVE PixelsCovered(_, _)
PixelsCovered(i, end) ==
    IF i > end THEN 0
    ELSE TagPixels(i) + PixelsCovered(i + TagLength(file[i]), end)

\* C11: for an image of W x H pixels with 3 or 4 channels, at the moment the
\* padding is written no run is pending (run = 0), and the instructions written
\* before the padding cover exactly W*H pixels.
EndOfInputRunFlushed ==
    ((ValidImage(3) \/ ValidImage(4)) /\ Encoded) =>
        /\ e_run = 0
        /\ PixelsCovered(13, Len(file) - QOI_PADDING) = in_width * ImageHeight

\* the same for 3-channel images only, where total_pixels is the pixel count
EndOfInputRunFlushedRGB ==
    (ValidImage(3) /\ Encoded) =>
        /\ e_run = 0
        /\ PixelsCovered(13, Len(file) - QOI_PADDING) = in_width * ImageHeight

\* the number of instructions that lie in positions i (1-based) to end
RECURSIVE InstrCount(_, _)
InstrCount(i, end) ==
    IF i > end THEN 0 ELSE 1 + InstrCount(i + TagLength(file[i]), end)

\* the instructions decode has consumed
InstructionsRead == InstrCount(13, rpos)

\* decode has just consumed an instruction that encode wrote, or is expanding
\* the run that instruction started
AtInstructionBoundary ==
    /\ pc \in {"decoding", "done"}
    /\ InstructionsRead >= 1
    /\ InstructionsRead <= Len(e_trace)

\* C12, as claimed: when the decoder has consumed instruction k, its cache equals,
\* slot for slot, the cache the encoder had when it had written instruction k,
\* and its pixel equals the encoder's.
CacheCoherence ==
    AtInstructionBoundary =>
        /\ d_px = e_trace[InstructionsRead].px
        /\ d_index = e_trace[InstructionsRead].index

\* what the code does keep: when the decoder has consumed instruction k, its
\* pixel equals the pixel the encoder had when it had written instruction k,
\* and its cache equals the encoder's in every slot but slot 63, which may hold
\* the sentinel (0,0,0,255) in the decoder's cache while it is still (0,0,0,0)
\* in the encoder's; that happens only when the stream starts with a RUN
CacheCoherenceButSentinelSlot ==
    AtInstructionBoundary =>
        LET e == e_trace[InstructionsRead]
        IN  /\ d_px = e.px
            /\ \A s \in 0..63 :
                   \/ d_index[s] = e.index[s]
                   \/ /\ s = 63
                      /\ d_index[s] = <<0, 0, 0, 255>>
                      /\ e.index[s] = <<0, 0, 0, 0>>
                      /\ file[13] >= 64
                      /\ file[13] < 128

\* the decoder has consumed a run of the sentinel and then another instruction,
\* and the two caches differ in slot 63
CacheCoherenceWitness ==
    /\ AtInstructionBoundary
    /\ InstructionsRead >= 2
    /\ d_index[63] = <<0, 0, 0, 255>>
    /\ e_trace[InstructionsRead].index[63] = <<0, 0, 0, 0>>
    /\ d_px = e_trace[InstructionsRead].px
    /\ d_px # <<0, 0, 0, 255>>

\* the instruction that starts with byte b, by the ranges of the tag table
TagOf(b) ==
    IF b < 64 THEN "INDEX"
    ELSE IF b < 96 THEN "RUN_8"
    ELSE IF b < 128 THEN "RUN_16"
    ELSE IF b < 192 THEN "DIFF_8"
    ELSE IF b < 224 THEN "DIFF_16"
    ELSE IF b < 240 THEN "DIFF_24"
    ELSE "COLOR"

\* the first applicable instruction, in the order of the claim, for the pixel px
\* that follows prev when the cache is cache
ClaimedTag(px, prev, cache) ==
    LET dr == px[1] - prev[1]
        dg == px[2] - prev[2]
        db == px[3] - prev[3]
        da == px[4] - prev[4]
    IN  IF cache[color_hash(px) % 64] = px THEN "INDEX"
        ELSE IF da = 0 /\ dr \in -1..2 /\ dg \in -1..2 /\ db \in -1..2 THEN "DIFF_8"
        ELSE IF da = 0 /\ dr \in -15..16 /\ dg \in -7..8 /\ db \in -7..8 THEN "DIFF_16"
        ELSE IF dr \in -15..16 /\ dg \in -15..16 /\ db \in -15..16 /\ da \in -15..16
             THEN "DIFF_24"
        ELSE "COLOR"

\* an iteration of the encoder's loop on a pixel that differs from the previous
EncodesNewPixel ==
    /\ pc = "encoding"
    /\ pixel_idx' = pixel_idx + 1
    /\ e_px' # px_prev

\* where the pixel's instruction starts (0-based) in that iteration: after the
\* instruction of the run the pixel ends, if there is one
PixelInstrStart ==
    IF e_run > 0 THEN wpos + TagLength(file'[wpos + 1]) ELSE wpos

\* C13: for every pixel that differs from the previous pixel the encoder writes
\* exactly one instruction (after the run instruction, if a run was pending),
\* the first applicable of INDEX, DIFF_8, DIFF_16, DIFF_24, COLOR, and it writes
\* the pixel into its cache slot exactly when the instruction is not INDEX.
TagSelectionOrder ==
    [][EncodesNewPixel =>
        LET tag == ClaimedTag(e_px', px_prev, e_index)
            b == file'[PixelInstrStart + 1]
        IN  /\ wpos' > PixelInstrStart
            /\ TagOf(b) = tag
            /\ wpos' = PixelInstrStart + TagLength(b)
            /\ (e_run > 0 => TagOf(file'[wpos + 1]) \in {"RUN_8", "RUN_16"})
            /\ e_index' = IF tag = "INDEX" THEN e_index
                          ELSE [e_index EXCEPT ![color_hash(e_px') % 64] = e_px']]_vars

\* a DIFF_16 instruction has been written for a pixel at the upper limits of its
\* ranges (dr = 16, dg = 8, db = 8)
TagSelectionOrderWitness ==
    /\ pc = "encoding"
    /\ pixel_idx = 2
    /\ Len(data) = 8
    /\ e_px = <<144, 136, 136, 128>>
    /\ px_prev = e_px
    /\ SubSeq(data, 1, 4) = <<128, 128, 128, 128>>
    /\ TagOf(file[wpos - 1]) = "DIFF_16"

\* the channels in which px differs from prev
ChangedChannels(px, prev) == Cardinality({i \in 1..4 : px[i] # prev[i]})

\* the sizes of the instructions able to represent the transition from prev to
\* px when the cache is cache: INDEX 1, DIFF_8 1, DIFF_16 2, DIFF_24 3, COLOR 1 +
\* the number of changed channels
CandidateSizes(px, prev, cache) ==
    LET dr == px[1] - prev[1]
        dg == px[2] - prev[2]
        db == px[3] - prev[3]
        da == px[4] - prev[4]
    IN  (IF cache[color_hash(px) % 64] = px THEN {1} ELSE {})
        \cup (IF da = 0 /\ dr \in -1..2 /\ dg \in -1..2 /\ db \in -1..2 THEN {1} ELSE {})
        \cup (IF da = 0 /\ dr \in -15..16 /\ dg \in -7..8 /\ db \in -7..8 THEN {2} ELSE {})
        \cup (IF dr \in -15..16 /\ dg \in -15..16 /\ db \in -15..16 /\ da \in -15..16
              THEN {3} ELSE {})
        \cup {1 + ChangedChannels(px, prev)}

SmallestSize(px, prev, cache) ==
    CHOOSE n \in CandidateSizes(px, prev, cache) :
        \A m \in CandidateSizes(px, prev, cache) : n <= m

\* C14, as claimed: the instruction written for a pixel that differs from the
\* previous one has the fewest bytes of all the instructions able to represent
\* the transition.
ByteMinimalTag ==
    [][EncodesNewPixel =>
        wpos' - PixelInstrStart = SmallestSize(e_px', px_prev, e_index)]_vars

\* C14, amended: the instruction written is the first that fits in the order
\* INDEX, DIFF_8, DIFF_16, DIFF_24, COLOR.  It has the fewest bytes of all the
\* instructions able to represent the transition, except when it is a DIFF_24
\* for a transition that changes a single channel: then it has 3 bytes where
\* COLOR would have 2.
ByteMinimalButDiff24 ==
    [][EncodesNewPixel =>
        LET size == wpos' - PixelInstrStart
            least == SmallestSize(e_px', px_prev, e_index)
            tag == TagOf(file'[PixelInstrStart + 1])
        IN  /\ tag = ClaimedTag(e_px', px_prev, e_index)
            /\ IF tag = "DIFF_24" /\ ChangedChannels(e_px', px_prev) = 1
               THEN size = 3 /\ least = 2
               ELSE size = least]_vars

\* a DIFF_24 instruction has been written for a change of alpha alone (da = 16)
ByteMinimalWitness ==
    /\ pc = "encoding"
    /\ pixel_idx = 2
    /\ Len(data) = 8
    /\ SubSeq(data, 1, 4) = <<128, 128, 128, 128>>
    /\ e_px = <<128, 128, 128, 144>>
    /\ wpos = 12 + 5 + 3
    /\ TagOf(file[wpos - 2]) = "DIFF_24"

\* the bytes of the DIFF instruction the encoder picks for the delta d, by the
\* layouts of the tag table, with R', G', B', A' the biased fields
ClaimedDiffBytes(d) ==
    IF d[4] = 0 /\ d[1] \in -1..2 /\ d[2] \in -1..2 /\ d[3] \in -1..2
    THEN <<128 + (d[1] + 1) * 16 + (d[2] + 1) * 4 + (d[3] + 1)>>
    ELSE IF d[4] = 0 /\ d[1] \in -15..16 /\ d[2] \in -7..8 /\ d[3] \in -7..8
    THEN <<192 + (d[1] + 15), (d[2] + 7) * 16 + (d[3] + 7)>>
    ELSE <<224 + ((d[1] + 15) \div 2),
           ((d[1] + 15) % 2) * 128 + (d[2] + 15) * 4 + ((d[3] + 15) \div 8),
           ((d[3] + 15) % 8) * 32 + (d[4] + 15)>>

\* the packing: the bytes written are those of the tag table, so the first byte
\* keeps the prefix 10, 110 or 1110, and the decoder reads the instruction whole
DiffPackingLayout ==
    pc \in {"diff_packed", "diff_decoded", "diff_panic"} =>
        /\ res.bytes = ClaimedDiffBytes(arg.d)
        /\ TagOf(res.bytes[1]) = CASE Len(res.bytes) = 1 -> "DIFF_8"
                                   [] Len(res.bytes) = 2 -> "DIFF_16"
                                   [] OTHER -> "DIFF_24"

\* C15: every delta the encoder packs as DIFF_8, DIFF_16 or DIFF_24 is written
\* with the bytes of the tag table (the first byte keeps its prefix), and the
\* decoder, reading them with the encoder's previous pixel held, gets the
\* original deltas back: its pixel moves by exactly (dr, dg, db, da).
DiffPackingInvertible ==
    (pc \in {"diff_decoded", "diff_panic"} /\ arg.dpx = TagBase) =>
        /\ res.bytes = ClaimedDiffBytes(arg.d)
        /\ res.consumed = Len(res.bytes)
        /\ pc = "diff_decoded"
        /\ \A i \in 1..4 : res.px[i] - arg.dpx[i] = arg.d[i]

\* the same in the build whose u8 arithmetic wraps
DiffPackingInvertibleWrapping ==
    (pc \in {"diff_decoded", "diff_panic"} /\ arg.dpx = TagBase /\ ~overflow_checks) =>
        /\ res.bytes = ClaimedDiffBytes(arg.d)
        /\ res.consumed = Len(res.bytes)
        /\ pc = "diff_decoded"
        /\ \A i \in 1..4 : res.px[i] - arg.dpx[i] = arg.d[i]

\* C16: in the DIFF_8, DIFF_16 and DIFF_24 branches of the decoder every channel
\* becomes (channel + delta) mod 256, whatever the field and the channel, and no
\* 8-bit subtraction or addition aborts the decode.
DiffArithmeticWraps ==
    pc \in {"diff_decoded", "diff_panic"} =>
        /\ pc = "diff_decoded"
        /\ \A i \in 1..4 : res.px[i] = (arg.dpx[i] + arg.d[i]) % 256

\* the same in the build whose u8 arithmetic wraps
DiffArithmeticWrapsWhenWrapping ==
    (pc \in {"diff_decoded", "diff_panic"} /\ ~overflow_checks) =>
        /\ pc = "diff_decoded"
        /\ \A i \in 1..4 : res.px[i] = (arg.dpx[i] + arg.d[i]) % 256

\* a DIFF instruction whose deltas are all positive and whose sums stay below
\* 256 is decoded in either build
DiffWithoutOverflow ==
    (pc \in {"diff_decoded", "diff_panic"}
        /\ \A i \in 1..4 : arg.d[i] >= 0 /\ arg.dpx[i] + arg.d[i] <= 255)
        => pc = "diff_decoded"

\* an iteration of the decoder's loop that reads an instruction and completes
ReadsInstruction ==
    /\ pc = "decoding"
    /\ d_run = 0
    /\ rpos' > rpos
    /\ pc' = "decoding"

\* C17, as claimed: the decoder's cache is left unchanged by every INDEX, RUN_8
\* and RUN_16 instruction and by every step that expands a run; after a DIFF_8,
\* DIFF_16, DIFF_24 or COLOR instruction cache[hash(px) mod 64] = px is written.
DecoderCacheFrame ==
    [][pc = "decoding" =>
        IF ReadsInstruction
            /\ TagOf(file[rpos + 1]) \in {"DIFF_8", "DIFF_16", "DIFF_24", "COLOR"}
        THEN d_index' = [d_index EXCEPT ![color_hash(d_px') % 64] = d_px']
        ELSE d_index' = d_index]_vars

\* what the code does: the decoder's cache is left unchanged by every step that
\* expands a run and by every step that fails; after every instruction it reads
\* (INDEX, RUN_8, RUN_16, DIFF_8, DIFF_16, DIFF_24 or COLOR) the decoder writes
\* cache[hash(px) mod 64] = px with its current pixel px
DecoderCacheWrittenAfterEveryInstruction ==
    [][pc = "decoding" =>
        IF ReadsInstruction
        THEN d_index' = [d_index EXCEPT ![color_hash(d_px') % 64] = d_px']
        ELSE d_index' = d_index]_vars

\* the decoder has read a RUN_8 as the first instruction and holds the sentinel
\* in slot 63 of its cache
DecoderCacheWitness ==
    /\ pc = "decoding"
    /\ rpos = 13
    /\ TagOf(file[13]) = "RUN_8"
    /\ d_run > 0
    /\ d_index[63] = <<0, 0, 0, 255>>
    /\ d_index # EmptyIndex

\* where the instructions written so far end (1-based position of the last byte)
BodyEnd == IF pc = "encoding" THEN Len(file) ELSE Len(file) - QOI_PADDING

\* no instruction in positions i to end changes alpha: no COLOR has its alpha
\* bit set, and the alpha field of every DIFF_24 is 15 (da = 0)
RECURSIVE AlphaUntouched(_, _)
AlphaUntouched(i, end) ==
    IF i > end THEN TRUE
    ELSE /\ (TagOf(file[i]) = "COLOR" => file[i] % 2 = 0)
         /\ (TagOf(file[i]) = "DIFF_24" => file[i + 2] % 32 = 15)
         /\ AlphaUntouched(i + TagLength(file[i]), end)

\* C18: while RGB data is encoded the alpha of the encoder's current and
\* previous pixel is 255, no instruction written changes alpha (no COLOR with
\* the alpha bit, every DIFF_24 alpha field 15), and every pixel that decode
\* produces from the stream with 4 channels has alpha 255.
AlphaOpaqueForRGB ==
    channels = 3 =>
        /\ e_px[4] = 255
        /\ px_prev[4] = 255
        /\ \A k \in 1..Len(e_trace) : e_trace[k].px[4] = 255
        /\ ((pc = "encoding" \/ Encoded) => AlphaUntouched(13, BodyEnd))
        /\ (d_channels = 4 =>
               \A k \in 1..Len(out_buf) : (k % 4 = 0 => out_buf[k] = 255))

\* RGB pixels written as DIFF_16, DIFF_24 and COLOR have been decoded with 4
\* channels
AlphaOpaqueWitness ==
    /\ pc = "done"
    /\ channels = 3
    /\ d_channels = 4
    /\ data = <<1, 8, 8, 0, 0, 0, 100, 0, 0>>
    /\ TagOf(file[13]) = "DIFF_16"
    /\ TagOf(file[15]) = "DIFF_24"
    /\ TagOf(file[18]) = "COLOR"
    /\ out_buf = <<1, 8, 8, 255, 0, 0, 0, 255, 100, 0, 0, 255>>

\* encode is applied to the two RGB pixels [10,20,30], [10,20,31] with W = 2
Scenario3 ==
    /\ channels = 3
    /\ in_width = 2
    /\ data = <<10, 20, 30, 10, 20, 31>>

\* C19, as claimed: the first pixel is written as a DIFF_24 instruction, the
\* second as a DIFF_8 instruction, and decoding the stream with 3 channels
\* returns the two pixels.
Scenario3AsClaimed ==
    Scenario3 =>
        /\ (Encoded => /\ TagOf(file[13]) = "DIFF_24"
                       /\ TagOf(file[16]) = "DIFF_8"
                       /\ Len(file) = 12 + 3 + 1 + QOI_PADDING)
        /\ ((Terminal /\ d_channels = 3) => (pc = "done" /\ returned = <<data, 2, 1>>))

\* C19, amended: the first pixel is written as a COLOR instruction with the red,
\* green and blue bits, 0xfe 0x0a 0x14 0x1e (db = 30 is outside [-15, 16]); the
\* second as the DIFF_8 instruction 0x96 (db = +1); and decoding the stream
\* with 3 channels returns the two pixels, with W = 2 and H = 1.
Scenario3ColorThenDiff8 ==
    Scenario3 =>
        /\ (Encoded =>
               file = <<113, 111, 105, 102, 2, 0, 1, 0, 9, 0, 0, 0,
                        254, 10, 20, 30, 150, 0, 0, 0, 0>>)
        /\ pc # "enc_panic"
        /\ ((Terminal /\ d_channels = 3) => (pc = "done" /\ returned = <<data, 2, 1>>))

\* the scenario's stream has been written and decoded with 3 channels
Scenario3Witness ==
    /\ Scenario3
    /\ pc = "done"
    /\ d_channels = 3
    /\ TagOf(file[13]) = "COLOR"
    /\ TagOf(file[17]) = "DIFF_8"
    /\ returned = <<data, 2, 1>>

\* the decoder is about to read instruction number InstructionsRead + 1, which
\* the encoder wrote, and it is an INDEX
AboutToReadIndex ==
    /\ pc = "decoding"
    /\ d_run = 0
    /\ OutputIncomplete
    /\ InstructionsRead + 1 <= Len(e_trace)
    /\ TagOf(file[rpos + 1]) = "INDEX"

\* C20: whenever the decoder is about to execute an INDEX instruction that the
\* encoder wrote for a pixel p, the slot of the decoder's cache that the
\* instruction names holds p, and so does that slot of the encoder's cache as it
\* was when the instruction was written, whatever the other slots hold.
IndexAgreement ==
    AboutToReadIndex =>
        LET e == e_trace[InstructionsRead + 1]
            slot == file[rpos + 1]
        IN  /\ d_index[slot] = e.px
            /\ e.index[slot] = e.px

\* the decoder is about to execute an INDEX the encoder wrote while the two
\* caches differ in another slot
IndexAgreementWitness ==
    /\ AboutToReadIndex
    /\ InstructionsRead >= 1
    /\ \E s \in 0..63 :
           /\ s # file[rpos + 1]
           /\ d_index[s] # e_trace[InstructionsRead].index[s]

\* the decoder is about to execute an INDEX the encoder wrote for a pixel that
\* an earlier instruction put into both caches
IndexOfWrittenSlot ==
    /\ AboutToReadIndex
    /\ InstructionsRead >= 2
    /\ d_index[file[rpos + 1]] # <<0, 0, 0, 0>>

\* the decoder is about to execute an INDEX of slot 63 that the encoder wrote,
\* after both sides have written the sentinel into that slot
IndexOfSentinelSlot ==
    /\ AboutToReadIndex
    /\ file[rpos + 1] = 63
    /\ d_index[63] = <<0, 0, 0, 255>>
    /\ e_trace[InstructionsRead].index[63] = <<0, 0, 0, 255>>

\* on the stream RUN_8, INDEX 63 the decoder has produced the sentinel for the
\* INDEX: the RUN_8 stored it in slot 63, which no DIFF or COLOR has written
IndexAfterRunReadsSentinel ==
    /\ pc = "done"
    /\ Len(file) = 14
    /\ SubSeq(file, 13, 14) = <<65, 63>>
    /\ d_px = <<0, 0, 0, 255>>
    /\ Len(out_buf) = 3 * d_channels

\* a new pixel has been written after the instruction of the run it ended
NewPixelAfterRun ==
    /\ pc = "encoding"
    /\ pixel_idx = 3
    /\ Len(e_trace) = 3
    /\ TagOf(file[18]) = "RUN_8"
    /\ TagOf(file[19]) = "DIFF_16"

====
